---------------------------- MODULE Spec2Model ----------------------------
(***************************************************************************)
(* Model of nornir_table_inventory/plugins/inventory/table.py: the         *)
(* normalisation of flat table rows into nornir Host objects               *)
(* (_get_host_obj and its helpers), FlatDataInventory.load, and the two    *)
(* row providers CSVInventory and ExcelInventory.                          *)
(*                                                                         *)
(* Python values are records [t |-> type, v |-> payload].  Python strings  *)
(* are sequences of one-character strings, so that `in`, replace(), str(), *)
(* lower() and int() are computed character by character.  Python dicts    *)
(* are sequences of [k, v] pairs in insertion order with unique keys.      *)
(* Floats are the integral floats n.0 and NaN.                             *)
(***************************************************************************)
EXTENDS Integers, Sequences, FiniteSets, TLC

(***************************************************************************)
(* Python values                                                           *)
(***************************************************************************)
PyNone == [t |-> "none", v |-> 0]
PyNaN == [t |-> "nan", v |-> 0]
PyStr(s) == [t |-> "str", v |-> s]
PyInt(n) == [t |-> "int", v |-> n]
PyFloat(n) == [t |-> "float", v |-> n]
PyBool(b) == [t |-> "bool", v |-> b]

IsNumeric(x) == x.t \in {"int", "float", "bool"}

Num(x) == IF x.t = "bool" THEN (IF x.v THEN 1 ELSE 0) ELSE x.v

\* Python's ==, which is also the equality of dict keys.
PyEq(a, b) ==
    IF IsNumeric(a) /\ IsNumeric(b) THEN Num(a) = Num(b)
    ELSE IF a.t = "str" /\ b.t = "str" THEN a.v = b.v
    ELSE a.t = "none" /\ b.t = "none"

\* Python's truth value, as tested by `if x:`.
Truthy(x) ==
    CASE x.t = "none" -> FALSE
      [] x.t = "nan" -> TRUE
      [] x.t = "str" -> x.v # <<>>
      [] x.t = "bool" -> x.v
      [] OTHER -> x.v # 0

(***************************************************************************)
(* Strings                                                                 *)
(***************************************************************************)
s_empty == <<>>
s_name == <<"n","a","m","e">>
s_hostname == <<"h","o","s","t","n","a","m","e">>
s_port == <<"p","o","r","t">>
s_username == <<"u","s","e","r","n","a","m","e">>
s_password == <<"p","a","s","s","w","o","r","d">>
s_platform == <<"p","l","a","t","f","o","r","m">>
s_timeout == <<"t","i","m","e","o","u","t">>
s_conn_timeout == <<"c","o","n","n","_">> \o s_timeout
s_auth_timeout == <<"a","u","t","h","_">> \o s_timeout
s_banner_timeout == <<"b","a","n","n","e","r","_">> \o s_timeout
s_blocking_timeout == <<"b","l","o","c","k","i","n","g","_">> \o s_timeout
s_session_timeout == <<"s","e","s","s","i","o","n","_">> \o s_timeout
s_fast_cli == <<"f","a","s","t","_","c","l","i">>
s_netmiko == <<"n","e","t","m","i","k","o">>
s_0 == <<"0">>
s_false == <<"f","a","l","s","e">>
s_none == <<"n","o","n","e">>

Digits == <<"0","1","2","3","4","5","6","7","8","9">>
UpperCase == <<"A","B","C","D","E","F","G","H","I","J","K","L","M",
               "N","O","P","Q","R","S","T","U","V","W","X","Y","Z">>
LowerCase == <<"a","b","c","d","e","f","g","h","i","j","k","l","m",
               "n","o","p","q","r","s","t","u","v","w","x","y","z">>

IndexOf(seq, c) == CHOOSE i \in 1..Len(seq) : seq[i] = c

IsDigit(c) == \E i \in 1..Len(Digits) : Digits[i] = c

\* str.lower()
Lower(s) ==
    [i \in 1..Len(s) |->
        IF \E j \in 1..Len(UpperCase) : UpperCase[j] = s[i]
        THEN LowerCase[IndexOf(UpperCase, s[i])]
        ELSE s[i]]

\* `p in s` for strings: p occurs in s as a substring.
StrContains(s, p) ==
    \E i \in 1..(Len(s) - Len(p) + 1) : SubSeq(s, i, i + Len(p) - 1) = p

\* s.replace(p, ""): the non-overlapping occurrences of p, left to right.
RECURSIVE StrRemove(_, _)
StrRemove(s, p) ==
    IF Len(s) < Len(p) THEN s
    ELSE IF SubSeq(s, 1, Len(p)) = p
         THEN StrRemove(SubSeq(s, Len(p) + 1, Len(s)), p)
         ELSE <<s[1]>> \o StrRemove(Tail(s), p)

\* s.strip() of blanks
RECURSIVE StrStrip(_)
StrStrip(s) ==
    IF s = <<>> THEN s
    ELSE IF s[1] = " " THEN StrStrip(Tail(s))
    ELSE IF s[Len(s)] = " " THEN StrStrip(SubSeq(s, 1, Len(s) - 1))
    ELSE s

RECURSIVE NatToStr(_)
NatToStr(n) ==
    IF n < 10 THEN <<Digits[n + 1]>>
    ELSE NatToStr(n \div 10) \o <<Digits[(n % 10) + 1]>>

IntToStr(n) == IF n < 0 THEN <<"-">> \o NatToStr(0 - n) ELSE NatToStr(n)

RECURSIVE DigitsToNat(_)
DigitsToNat(s) ==
    IF s = <<>> THEN 0
    ELSE 10 * DigitsToNat(SubSeq(s, 1, Len(s) - 1)) + (IndexOf(Digits, s[Len(s)]) - 1)

\* str(x)
PyStrOf(x) ==
    CASE x.t = "str" -> x.v
      [] x.t = "int" -> IntToStr(x.v)
      [] x.t = "float" -> IntToStr(x.v) \o <<".","0">>
      [] x.t = "bool" -> IF x.v THEN <<"T","r","u","e">> ELSE <<"F","a","l","s","e">>
      [] x.t = "nan" -> <<"n","a","n">>
      [] OTHER -> <<"N","o","n","e">>

\* int(x): [exc |-> "", val |-> n] or the exception int() raises.
Ok(val) == [exc |-> "", val |-> val]
Raised(exc) == [exc |-> exc, val |-> PyNone]

ParseInt(s) ==
    LET b == StrStrip(s)
        signed == b # <<>> /\ b[1] \in {"-", "+"}
        d == IF signed THEN Tail(b) ELSE b
    IN IF d # <<>> /\ \A i \in 1..Len(d) : IsDigit(d[i])
       THEN Ok(PyInt(IF signed /\ b[1] = "-" THEN 0 - DigitsToNat(d) ELSE DigitsToNat(d)))
       ELSE Raised("ValueError")

PyIntOf(x) ==
    CASE x.t = "str" -> ParseInt(x.v)
      [] x.t \in {"int", "float", "bool"} -> Ok(PyInt(Num(x)))
      [] x.t = "nan" -> Raised("ValueError")
      [] OTHER -> Raised("TypeError")

(***************************************************************************)
(* Dicts with string keys: sequences of [k, v] in insertion order          *)
(***************************************************************************)
DictHas(d, k) == \E i \in 1..Len(d) : d[i].k = k

DictGet(d, k) == d[CHOOSE i \in 1..Len(d) : d[i].k = k].v

DictKeys(d) == {d[i].k : i \in 1..Len(d)}

DictSet(d, k, v) ==
    IF DictHas(d, k)
    THEN [i \in 1..Len(d) |-> IF d[i].k = k THEN [k |-> k, v |-> v] ELSE d[i]]
    ELSE Append(d, [k |-> k, v |-> v])

\* data.get(k, default)
DataGet(data, k, default) == IF DictHas(data, k) THEN DictGet(data, k) ELSE default


(***************************************************************************)
(* table.py: helpers                                                       *)
(***************************************************************************)
s_extras == <<"e","x","t","r","a","s">>

InList(x, l) == \E i \in 1..Len(l) : l[i] = x

\* _empty without its test for the empty string.
_empty_without_blank(x) == x = PyNone \/ x.t = "nan"

\* _empty: x is None or (isinstance(x, float) and isnan(x)) or x == ""
_empty(x) == x = PyNone \/ x.t = "nan" \/ PyEq(x, PyStr(s_empty))

ConnectionOptions(hostname, port, username, password, platform, extras) ==
    [hostname |-> hostname, port |-> port, username |-> username,
     password |-> password, platform |-> platform, extras |-> extras]

\* data maps a connection name to a dict of its fields; an unset field is None.
_get_connection_options(data) ==
    [i \in 1..Len(data) |->
        [k |-> data[i].k,
         v |-> ConnectionOptions(
                 DataGet(data[i].v, s_hostname, PyNone),
                 DataGet(data[i].v, s_port, PyNone),
                 DataGet(data[i].v, s_username, PyNone),
                 DataGet(data[i].v, s_password, PyNone),
                 DataGet(data[i].v, s_platform, PyNone),
                 DataGet(data[i].v, s_extras, PyNone))]]

no_data_fields == <<s_name, s_hostname, s_port, s_username, s_password, s_platform>>

netmiko_prefix == s_netmiko \o <<"_">>

\* The test of _get_host_data with startswith in place of `in`.
IsHostDataField_startswith(k) ==
    /\ ~InList(k, no_data_fields)
    /\ ~(Len(k) >= Len(netmiko_prefix) /\ SubSeq(k, 1, Len(netmiko_prefix)) = netmiko_prefix)

\* The test of _get_host_data on a column name.
IsHostDataField(k) == ~InList(k, no_data_fields) /\ ~StrContains(k, netmiko_prefix)

_get_host_data(data) ==
    LET keep(e) == IsHostDataField(e.k)
        kept == SelectSeq(data, keep)
    IN [i \in 1..Len(kept) |->
          [k |-> kept[i].k,
           v |-> IF ~_empty(kept[i].v) THEN kept[i].v ELSE PyNone]]

int_keys == <<s_timeout, s_conn_timeout, s_auth_timeout, s_banner_timeout,
              s_blocking_timeout, s_session_timeout>>

bool_keys == <<s_fast_cli>>

\* The value _get_host_netmiko_options stores under new_k for raw value v,
\* or the exception the coercion raises.
CoerceOption(new_k, v) ==
    IF InList(new_k, int_keys) THEN PyIntOf(v)
    ELSE IF InList(new_k, bool_keys)
         THEN IF InList(Lower(PyStrOf(v)), <<s_0, s_false, s_none>>)
              THEN Ok(PyBool(FALSE))
              ELSE Ok(PyBool(TRUE))
         ELSE IF _empty(v) THEN Ok(PyNone) ELSE Ok(v)

\* The loop of _get_host_netmiko_options over data.items(), from extra_opts.
RECURSIVE ExtraOpts(_, _)
ExtraOpts(data, extra_opts) ==
    IF data = <<>> THEN Ok(extra_opts)
    ELSE LET k == Head(data).k
             v == Head(data).v
         IN IF StrContains(k, netmiko_prefix)
            THEN LET new_k == StrRemove(k, netmiko_prefix)
                     c == CoerceOption(new_k, v)
                 IN IF c.exc # "" THEN c
                    ELSE ExtraOpts(Tail(data), DictSet(extra_opts, new_k, c.val))
            ELSE ExtraOpts(Tail(data), extra_opts)

_get_host_netmiko_options(data) ==
    LET r == ExtraOpts(data, <<>>)
    IN IF r.exc # "" THEN r
       ELSE IF r.val # <<>>
            THEN Ok(_get_connection_options(
                      <<[k |-> s_netmiko, v |-> <<[k |-> s_extras, v |-> r.val]>>]>>))
            ELSE Ok(<<>>)

DefaultPort == 22

\* `if x: x = str(x) if not _empty(x) else None`
StrField(x) ==
    IF Truthy(x) THEN (IF ~_empty(x) THEN PyStr(PyStrOf(x)) ELSE PyNone) ELSE x

\* `if port: port = int(port) if not _empty(port) else None`
PortField(port) ==
    IF Truthy(port) THEN (IF ~_empty(port) THEN PyIntOf(port) ELSE Ok(PyNone))
    ELSE Ok(port)

Host(name, hostname, port, username, password, platform, data, connection_options) ==
    [name |-> name, hostname |-> hostname, port |-> port, username |-> username,
     password |-> password, platform |-> platform, data |-> data,
     connection_options |-> connection_options]

\* _get_host_obj: Ok(Host) or the exception a coercion raises.
_get_host_obj(data) ==
    LET name == DataGet(data, s_name, PyNone)
        port == PortField(DataGet(data, s_port, PyInt(DefaultPort)))
        opts == _get_host_netmiko_options(data)
    IN IF port.exc # "" THEN port
       ELSE IF opts.exc # "" THEN opts
       ELSE Ok(Host(IF Truthy(name) THEN PyStr(PyStrOf(name)) ELSE name,
                    StrField(DataGet(data, s_hostname, PyNone)),
                    port.val,
                    StrField(DataGet(data, s_username, PyNone)),
                    StrField(DataGet(data, s_password, PyNone)),
                    StrField(DataGet(data, s_platform, PyNone)),
                    _get_host_data(data),
                    opts.val))

(***************************************************************************)
(* Hosts: a dict keyed by Python values                                    *)
(***************************************************************************)
HostsHas(h, key) == \E i \in 1..Len(h) : PyEq(h[i].k, key)

HostsGet(h, key) == h[CHOOSE i \in 1..Len(h) : PyEq(h[i].k, key)].v

\* hosts.setdefault(key, host): the first host of a key stays.
HostsSet_setdefault(h, key, host) ==
    IF HostsHas(h, key) THEN h ELSE Append(h, [k |-> key, v |-> host])

\* hosts[key] = host: an equal key keeps its place (and the key object first
\* inserted), a new key goes last.
HostsSet(h, key, host) ==
    IF HostsHas(h, key)
    THEN [i \in 1..Len(h) |-> IF PyEq(h[i].k, key) THEN [k |-> h[i].k, v |-> host] ELSE h[i]]
    ELSE Append(h, [k |-> key, v |-> host])

(***************************************************************************)
(* Bounds and inputs                                                       *)
(***************************************************************************)
MaxRows == 3        \* rows of a row sequence given to FlatDataInventory
MaxLoads == 2       \* calls of load on one instance
MaxCols == 2        \* columns of a row besides name, for _get_host_obj
MaxFileRows == 2    \* data lines of a csv file, data rows of a sheet

s_R1 == <<"R","1">>
s_R2 == <<"R","2">>
s_h1 == <<"h","1">>
s_5 == <<"5">>
s_22 == <<"2","2">>
s_30 == <<"3","0">>
s_ab == <<"a","b">>
s_site == <<"s","i","t","e">>
s_secret == <<"s","e","c","r","e","t">>
s_NYC == <<"N","Y","C">>
s_FALSE == <<"F","A","L","S","E">>
s_yes == <<"y","e","s">>
s_my_netmiko_note == <<"m","y","_">> \o s_netmiko \o <<"_","n","o","t","e">>

Entry(k, v) == [k |-> k, v |-> v]

Entries(k, vs) == {Entry(k, v) : v \in vs}

EmptyValues == {PyNone, PyNaN, PyStr(s_empty)}

\* The cells a row for _get_host_obj draws its columns from.
HostCells ==
    Entries(s_hostname, EmptyValues \cup {PyStr(s_h1), PyInt(0), PyInt(10)})
    \cup Entries(s_port, EmptyValues \cup {PyStr(s_22), PyInt(830), PyInt(0), PyStr(s_ab)})
    \cup Entries(s_username, {PyStr(s_empty), PyStr(s_ab)})
    \cup Entries(s_password, {PyNone, PyStr(s_ab)})
    \cup Entries(s_platform, {PyNaN, PyBool(FALSE), PyStr(s_ab)})
    \cup Entries(netmiko_prefix \o s_timeout,
                 EmptyValues \cup {PyStr(s_30), PyInt(30), PyStr(s_ab)})
    \cup Entries(netmiko_prefix \o s_conn_timeout, {PyStr(s_empty), PyStr(s_5)})
    \cup Entries(netmiko_prefix \o s_auth_timeout, {PyNone, PyFloat(5)})
    \cup Entries(netmiko_prefix \o s_banner_timeout, {PyNaN, PyStr(s_5)})
    \cup Entries(netmiko_prefix \o s_blocking_timeout, {PyStr(s_empty), PyInt(5)})
    \cup Entries(netmiko_prefix \o s_session_timeout, {PyNone, PyStr(s_5)})
    \cup Entries(netmiko_prefix \o s_fast_cli,
                 EmptyValues \cup {PyStr(s_false), PyStr(s_FALSE), PyStr(s_0), PyInt(0),
                                   PyStr(s_none), PyBool(FALSE), PyBool(TRUE), PyStr(s_yes)})
    \cup Entries(netmiko_prefix \o s_secret, {PyNone, PyStr(s_empty), PyStr(s_ab), PyInt(0)})
    \cup Entries(s_site, EmptyValues \cup {PyStr(s_NYC), PyInt(0), PyBool(FALSE)})
    \cup Entries(s_secret, {PyStr(s_NYC)})
    \cup Entries(s_my_netmiko_note, {PyStr(s_empty), PyStr(s_ab)})

UniqueKeys(d) == \A i, j \in 1..Len(d) : d[i].k = d[j].k => i = j

HostRows ==
    {<<Entry(s_name, nm)>> \o cols :
        nm \in {PyStr(s_R1), PyInt(5)},
        cols \in {c \in UNION {[1..n -> HostCells] : n \in 0..MaxCols} : UniqueKeys(c)}}

\* The rows a row sequence given to FlatDataInventory is made of.
LoadRows ==
    {<<Entry(s_name, nm)>> :
        nm \in {PyStr(s_R1), PyStr(s_5), PyInt(5), PyBool(TRUE), PyInt(1), PyInt(0)}
               \cup EmptyValues}
    \cup {<<Entry(s_name, PyStr(s_R1)), Entry(s_hostname, PyStr(s_h1))>>,
          <<Entry(s_name, PyStr(s_R2)), Entry(s_port, PyStr(s_ab))>>,
          <<Entry(s_hostname, PyStr(s_h1))>>}

RowSeqs == UNION {[1..n -> LoadRows] : n \in 0..MaxRows}

\* A csv file: its header line and its data lines, every cell a string.
CsvFiles ==
    [fieldnames : {<<s_name, s_hostname>>, <<s_name, s_port>>},
     lines : UNION {[1..n -> {<<>>, <<s_R1>>, <<s_R1, s_h1>>, <<s_empty, s_22>>}] :
                      n \in 0..MaxFileRows}]

\* The active sheet of a workbook: the cells of row 1, and of the rows from 2.
Sheets ==
    UNION {[headers : {h},
            rows : UNION {[1..n -> [1..Len(h) -> {PyStr(s_R1), PyInt(5), PyNone}]] :
                            n \in 0..MaxFileRows}] :
             h \in {<<PyStr(s_name), PyStr(s_hostname)>>,
                    <<PyStr(s_name), PyNone>>,
                    <<PyStr(s_empty), PyStr(s_name)>>}}

(***************************************************************************)
(* The row providers                                                       *)
(***************************************************************************)
\* One row of csv.DictReader: dict(zip(fieldnames, row)), a missing cell None.
DictReaderRow(fieldnames, row) ==
    LET RECURSIVE Fill(_, _)
        Fill(i, d) ==
            IF i > Len(fieldnames) THEN d
            ELSE Fill(i + 1, DictSet(d, fieldnames[i],
                                     IF i <= Len(row) THEN PyStr(row[i]) ELSE PyNone))
    IN Fill(1, <<>>)

\* `for i in csv.DictReader(f): data.append(i)`; a blank line is skipped.
CsvData(file) ==
    LET nonblank(l) == l # <<>>
        ls == SelectSeq(file.lines, nonblank)
    IN [i \in 1..Len(ls) |-> DictReaderRow(file.fieldnames, ls[i])]

\* The item ExcelInventory builds from one sheet row.
ExcelItem(headers, row) ==
    LET RECURSIVE Fill(_, _)
        Fill(idx, item) ==
            IF idx > Len(row) THEN item
            ELSE IF headers[idx] = PyNone \/ PyEq(headers[idx], PyStr(s_empty))
                 THEN Fill(idx + 1, item)
                 ELSE Fill(idx + 1, DictSet(item, headers[idx].v, row[idx]))
    IN Fill(1, <<>>)

ExcelItems(sheet) ==
    [i \in 1..Len(sheet.rows) |-> ExcelItem(sheet.headers, sheet.rows[i])]

(***************************************************************************)
(* State                                                                   *)
(***************************************************************************)
VARIABLES
    kind,            \* the class of the instance: "none" before construction
    source,          \* the rows the constructor was given or read
    has_hosts_list,  \* whether the instance has the attribute hosts_list
    hosts_list,      \* self.hosts_list
    pc,              \* "idle", or "loop" inside load's for loop
    idx,             \* the position of load's for loop in hosts_list
    hosts,           \* load's local hosts
    results,         \* the outcome of each finished call of load
    arg,             \* the row _get_host_obj is applied to
    ret              \* what _get_host_obj returned or raised

vars == <<kind, source, has_hosts_list, hosts_list, pc, idx, hosts, results, arg, ret>>

NotCalled == Raised("NotCalled")

Inventory(h, groups, defaults) == [hosts |-> h, groups |-> groups, defaults |-> defaults]

NoInstance ==
    /\ kind = "none"
    /\ source = <<>>
    /\ has_hosts_list = FALSE
    /\ hosts_list = <<>>
    /\ pc = "idle"
    /\ idx = 0
    /\ hosts = <<>>
    /\ results = <<>>

Init ==
    /\ NoInstance
    /\ arg = <<>>
    /\ ret = NotCalled

\* FlatDataInventory.__init__
NewFlatDataInventory ==
    /\ kind = "none"
    /\ \E data \in RowSeqs :
          /\ source' = data
          /\ hosts_list' = data
    /\ kind' = "flat"
    /\ has_hosts_list' = TRUE
    /\ UNCHANGED <<pc, idx, hosts, results, arg, ret>>

\* CSVInventory.__init__: data is filled and dropped, no attribute is set.
NewCSVInventory ==
    /\ kind = "none"
    /\ \E csv_file \in CsvFiles : source' = CsvData(csv_file)
    /\ kind' = "csv"
    /\ UNCHANGED <<has_hosts_list, hosts_list, pc, idx, hosts, results, arg, ret>>

\* ExcelInventory.__init__
NewExcelInventory ==
    /\ kind = "none"
    /\ \E sheet \in Sheets :
          /\ source' = ExcelItems(sheet)
          /\ hosts_list' = ExcelItems(sheet)
    /\ kind' = "excel"
    /\ has_hosts_list' = TRUE
    /\ UNCHANGED <<pc, idx, hosts, results, arg, ret>>

\* A row read with data.pop("name") in place of data.get("name").
RowAfterLoad_pop(host_dict) ==
    LET rest(e) == e.k # s_name IN SelectSeq(host_dict, rest)

\* load and _get_host_obj only read the row they are given.
RowAfterLoad(host_dict) == host_dict

\* load up to the evaluation of self.hosts_list
LoadBegin ==
    /\ kind # "none"
    /\ pc = "idle"
    /\ Len(results) < MaxLoads
    /\ IF has_hosts_list
       THEN /\ pc' = "loop"
            /\ idx' = 1
            /\ hosts' = <<>>
            /\ UNCHANGED results
       ELSE /\ results' = Append(results, Raised("AttributeError"))
            /\ UNCHANGED <<pc, idx, hosts>>
    /\ UNCHANGED <<kind, source, has_hosts_list, hosts_list, arg, ret>>

\* What one iteration of load's loop does with host_dict: the hosts after it,
\* or the exception that ends load.
LoadStep(h, host_dict) ==
    IF ~DictHas(host_dict, s_name) THEN Raised("KeyError")
    ELSE IF ~_empty(DictGet(host_dict, s_name))
         THEN LET o == _get_host_obj(host_dict)
              IN IF o.exc # "" THEN o
                 ELSE Ok(HostsSet(h, DictGet(host_dict, s_name), o.val))
         ELSE Raised("Exception")

LoadRow ==
    /\ pc = "loop"
    /\ idx <= Len(hosts_list)
    /\ LET r == LoadStep(hosts, hosts_list[idx])
       IN IF r.exc = ""
          THEN /\ hosts' = r.val
               /\ idx' = idx + 1
               /\ UNCHANGED <<pc, results>>
          ELSE /\ results' = Append(results, r)
               /\ pc' = "idle"
               /\ idx' = 0
               /\ hosts' = <<>>
    /\ hosts_list' = [hosts_list EXCEPT ![idx] = RowAfterLoad(@)]
    /\ UNCHANGED <<kind, source, has_hosts_list, arg, ret>>

LoadReturn ==
    /\ pc = "loop"
    /\ idx > Len(hosts_list)
    /\ results' = Append(results, Ok(Inventory(hosts, <<>>, <<>>)))
    /\ pc' = "idle"
    /\ idx' = 0
    /\ hosts' = <<>>
    /\ UNCHANGED <<kind, source, has_hosts_list, hosts_list, arg, ret>>

Next ==
    \/ NewFlatDataInventory
    \/ NewCSVInventory
    \/ NewExcelInventory
    \/ LoadBegin
    \/ LoadRow
    \/ LoadReturn

Spec == Init /\ [][Next]_vars

\* _get_host_obj applied to one row.
HostInit ==
    /\ NoInstance
    /\ arg \in HostRows
    /\ ret = NotCalled

CallGetHostObj ==
    /\ ret = NotCalled
    /\ ret' = _get_host_obj(arg)
    /\ UNCHANGED <<kind, source, has_hosts_list, hosts_list, pc, idx, hosts, results, arg>>

HostNext == CallGetHostObj

SpecHost == HostInit /\ [][HostNext]_vars

(***************************************************************************)
(* Properties                                                              *)
(***************************************************************************)
IdentityFields == {s_name, s_hostname, s_port, s_username, s_password, s_platform}

TimeoutOptions == {s_timeout, s_conn_timeout, s_auth_timeout, s_banner_timeout,
                   s_blocking_timeout, s_session_timeout}

Called == ret # NotCalled

RowName(row) == DictGet(row, s_name)

EmptyNameAt(i) ==
    /\ i \in 1..Len(hosts_list)
    /\ DictHas(hosts_list[i], s_name)
    /\ RowName(hosts_list[i]) \in EmptyValues

ValidNameAt(i) ==
    /\ i \in 1..Len(hosts_list)
    /\ DictHas(hosts_list[i], s_name)
    /\ RowName(hosts_list[i]) \notin EmptyValues

\* The extras of the host's netmiko connection options.
ExtrasOf(host) == host.connection_options[1].v.extras

Without(row, k) == LET rest(e) == e.k # k IN SelectSeq(row, rest)

\* C1: when a row of the row sequence has an empty name (None, NaN or ""),
\* every call of load ends with an exception and no inventory, and load's loop
\* never goes past that row, so no host is made for it or for a later row.
C1_EmptyNameFailsLoad ==
    \A i \in 1..Len(hosts_list) :
        EmptyNameAt(i) =>
            /\ \A n \in 1..Len(results) : results[n].exc # "" /\ results[n].val = PyNone
            /\ pc = "loop" => idx <= i /\ Len(hosts) < i

C1_Witness ==
    /\ Len(hosts_list) = 3
    /\ ValidNameAt(1) /\ ValidNameAt(2) /\ EmptyNameAt(3)
    /\ Len(results) >= 1
    /\ results[1].exc = "Exception"

\* C2: for a row with a non-empty name, port is absent when the row has no
\* port column or the raw port is empty, and is the parsed integer when the raw
\* port is non-empty and parses as an integer.
C2_PortAbsentOrInteger ==
    (Called /\ _get_host_netmiko_options(arg).exc = "") =>
        IF ~DictHas(arg, s_port) \/ DataGet(arg, s_port, PyNone) \in EmptyValues
        THEN ret.exc = "" /\ ret.val.port = PyNone
        ELSE PyIntOf(DictGet(arg, s_port)).exc = "" =>
                ret.exc = "" /\ ret.val.port = PyIntOf(DictGet(arg, s_port)).val

FieldOf(host, f) ==
    CASE f = s_hostname -> host.hostname
      [] f = s_username -> host.username
      [] f = s_password -> host.password
      [] f = s_platform -> host.platform

\* C3: for a row with a non-empty name, each of hostname, username, password
\* and platform is absent when its raw value is empty, and the raw value as a
\* string otherwise.
C3_StringFieldsAbsentOrString ==
    (Called /\ ret.exc = "") =>
        \A f \in {s_hostname, s_username, s_password, s_platform} :
            LET raw == DataGet(arg, f, PyNone)
            IN FieldOf(ret.val, f) =
                  IF raw \in EmptyValues THEN PyNone ELSE PyStr(PyStrOf(raw))

SameKeyRows(rows, n, key) == {j \in 1..n : PyEq(RowName(rows[j]), key)}

Max(S) == CHOOSE x \in S : \A y \in S : y <= x

\* h holds one host per name of the first n rows: the host of the last row
\* with that name.
LastWriteWins(h, rows, n) ==
    /\ \A i \in 1..n :
          LET under == {m \in 1..Len(h) : PyEq(h[m].k, RowName(rows[i]))}
              last == Max(SameKeyRows(rows, n, RowName(rows[i])))
          IN /\ Cardinality(under) = 1
             /\ \A m \in under : Ok(h[m].v) = _get_host_obj(rows[last])
    /\ \A m \in 1..Len(h) : \E i \in 1..n : PyEq(h[m].k, RowName(rows[i]))

\* C4: rows are processed in order and the last row of a name wins: inside
\* load's loop and in every returned inventory, each name of the rows processed
\* has exactly one host, the one made from the last of these rows with that
\* name.  Names are the same when the mapping takes them for the same key.
C4_LastWriteWins ==
    /\ pc = "loop" => LastWriteWins(hosts, hosts_list, idx - 1)
    /\ \A n \in 1..Len(results) :
          results[n].exc = "" =>
              LastWriteWins(results[n].val.hosts, hosts_list, Len(hosts_list))

C4_Witness ==
    /\ Len(hosts_list) = 3
    /\ Len(results) >= 1
    /\ results[1].exc = ""
    /\ PyEq(RowName(hosts_list[1]), RowName(hosts_list[3]))
    /\ ~PyEq(RowName(hosts_list[1]), RowName(hosts_list[2]))
    /\ _get_host_obj(hosts_list[1]) # _get_host_obj(hosts_list[3])

\* C5: the host's metadata holds exactly the columns that are no identity
\* field and do not contain netmiko_, under their own names, an empty value as
\* None and any other value unchanged; every key of extras is the stripped
\* name of a column containing netmiko_, and without such a column the host
\* has no connection options.
C5_ColumnsPartitioned ==
    (Called /\ ret.exc = "") =>
        LET md == ret.val.data
            co == ret.val.connection_options
            meta == {i \in 1..Len(arg) :
                        arg[i].k \notin IdentityFields
                        /\ ~StrContains(arg[i].k, netmiko_prefix)}
            opts == {i \in 1..Len(arg) : StrContains(arg[i].k, netmiko_prefix)}
        IN /\ Len(md) = Cardinality(meta)
           /\ DictKeys(md) = {arg[i].k : i \in meta}
           /\ \A i \in meta :
                 DictGet(md, arg[i].k) =
                    IF arg[i].v \in EmptyValues THEN PyNone ELSE arg[i].v
           /\ IF opts = {} THEN co = <<>>
              ELSE /\ Len(co) = 1
                   /\ co[1].k = s_netmiko
                   /\ DictKeys(co[1].v.extras) =
                         {StrRemove(arg[i].k, netmiko_prefix) : i \in opts}

C5_Witness ==
    /\ Called
    /\ ret.exc = ""
    /\ DictHas(arg, s_site)
    /\ DictGet(arg, s_site) = PyStr(s_empty)
    /\ DictHas(arg, s_my_netmiko_note)

\* C6: an integer-valued override column (the timeout family) with an empty
\* raw value does not make the load raise and is stored as None in extras; a
\* non-empty value that parses as an integer is stored as that integer.
C6_EmptyTimeoutIsAbsent ==
    Called =>
        \A o \in TimeoutOptions :
            LET col == netmiko_prefix \o o
            IN (DictHas(arg, col) /\ _get_host_obj(Without(arg, col)).exc = "") =>
                  LET raw == DictGet(arg, col)
                  IN IF raw \in EmptyValues
                     THEN ret.exc = "" /\ DictGet(ExtrasOf(ret.val), o) = PyNone
                     ELSE PyIntOf(raw).exc = "" =>
                            /\ ret.exc = ""
                            /\ DictGet(ExtrasOf(ret.val), o) = PyIntOf(raw).val

\* C7: what extras holds for fast_cli depends on the raw value alone: None for
\* an empty raw value, False for a non-empty one whose lower-cased string is
\* "0", "false" or "none", True for every other non-empty one.
C7_FastCliBoolean ==
    (Called /\ ret.exc = "" /\ DictHas(arg, netmiko_prefix \o s_fast_cli)) =>
        LET raw == DictGet(arg, netmiko_prefix \o s_fast_cli)
        IN DictGet(ExtrasOf(ret.val), s_fast_cli) =
              IF raw \in EmptyValues THEN PyNone
              ELSE PyBool(Lower(PyStrOf(raw)) \notin {s_0, s_false, s_none})

\* C8: load carries no hidden state: every call of load on an instance ends
\* the same way, with the same exception or with equal inventories, and the
\* stored row sequence stays the one the instance was built from.
C8_LoadIdempotent ==
    /\ has_hosts_list => hosts_list = source
    /\ \A m, n \in 1..Len(results) : results[m] = results[n]

C8_Witness ==
    /\ Len(results) = 2
    /\ results[1].exc = ""
    /\ Len(results[1].val.hosts) >= 2

\* C9: an instance built by CSVInventory or ExcelInventory holds the rows it
\* read, and load on it does not fail for lack of rows.
C9_ProvidersHoldRows ==
    (kind \in {"csv", "excel"} /\ Len(results) >= 1) =>
        /\ has_hosts_list
        /\ hosts_list = source
        /\ \A n \in 1..Len(results) : results[n].exc # "AttributeError"

\* C10: in every returned inventory each key equals the name of the host
\* stored under it, that name is a non-empty string, and two rows whose names
\* have the same string never have two keys.
C10_KeyIsHostName ==
    \A n \in 1..Len(results) :
        results[n].exc = "" =>
            LET h == results[n].val.hosts
            IN /\ \A m \in 1..Len(h) :
                    /\ h[m].v.name.t = "str"
                    /\ h[m].v.name.v # s_empty
                    /\ h[m].k = h[m].v.name
               /\ \A i, j \in 1..Len(h) : PyStrOf(h[i].k) = PyStrOf(h[j].k) => i = j

=============================================================================
